---- MODULE Spec2Model ----
(***************************************************************************)
(* RSLint: the unary/update expression subparser (Parser::parse_unary_expr *)
(* in rslint-parse) and the no-extra-semi lint rule (NoExtraSemi in        *)
(* rslint_core).                                                           *)
(*                                                                         *)
(* The parser is modelled over a token stream.  Every token kind has a     *)
(* fixed lexeme length, so byte offsets, spans and whitespace spans are    *)
(* computed exactly as the code computes them.  The lexer, the whitespace  *)
(* helper, parse_lhs_expr and is_valid_assign_target live outside the two  *)
(* source files and are modelled from the specification and from the       *)
(* expected values of the unit tests in unary_expr.rs.                     *)
(***************************************************************************)
EXTENDS Integers, Sequences, FiniteSets, TLC

VARIABLES source, strict, cur, peeked, errors, calls, tree, visited, sink

vars == <<source, strict, cur, peeked, errors, calls, tree, visited, sink>>

parserVars == <<source, strict, cur, peeked, errors, calls>>

ruleVars == <<tree, visited, sink>>

(***************************************************************************)
(* Bounds                                                                  *)
(***************************************************************************)
\* longest token stream handed to the parser
MaxLen == 4

\* largest syntax tree handed to the rule dispatcher
MaxNodes == 3

(***************************************************************************)
(* Token source                                                            *)
(***************************************************************************)
TokenKinds ==
  {"Identifier", "Number", "Increment", "Decrement", "Delete", "Add",
   "Whitespace", "Linebreak", "ParenOpen", "ParenClose", "Invalid"}

\* byte length of the lexeme of a token of kind t ("foo", "5", "++", "--",
\* "delete", "+", " ", "\n", "(", ")", one malformed byte)
LexemeLen(t) ==
  CASE t = "Identifier" -> 3
    [] t \in {"Increment", "Decrement"} -> 2
    [] t = "Delete" -> 6
    [] OTHER -> 1

\* a lexer never yields kind b directly after kind a when the two lexemes
\* would have been read as one token (maximal munch)
Adjacent(a, b) ==
  /\ ~(a \in {"Identifier", "Number", "Delete"} /\ b \in {"Identifier", "Number", "Delete"})
  /\ ~(a = "Add" /\ b \in {"Add", "Increment"})

WellLexed(s) ==
  /\ s[1] # "Invalid"
  /\ \A i \in 1..(Len(s) - 1) : Adjacent(s[i], s[i + 1])

\* index of the end-of-file token
EOFIndex == Len(source) + 1

RECURSIVE TokStart(_)
\* lexeme.start of the i-th token
TokStart(i) == IF i <= 1 THEN 0 ELSE TokStart(i - 1) + LexemeLen(source[i - 1])

\* lexeme.end of the i-th token (the end-of-file token is empty)
TokEnd(i) == IF i >= EOFIndex THEN TokStart(EOFIndex) ELSE TokStart(i) + LexemeLen(source[i])

\* token_type of the i-th token
TokType(i) == IF i >= EOFIndex THEN "EOF" ELSE source[i]

Span(start, end) == [start |-> start, end |-> end]

\* results of the fallible routines: Ok(val) or Err, with the parser state p
\* (cur, peeked, errors) the routine left behind
Ok(p, val) == [ok |-> TRUE, p |-> p, val |-> val]

Err(p) == [ok |-> FALSE, p |-> p, val |-> "Err"]

\* let x = v; K(x), with v evaluated once
Let(v, K(_)) == CHOOSE y \in {K(x) : x \in {v}} : TRUE

\* the `?` operator: r? followed by K, an Err of r returned at once
Try(r, K(_)) == Let(r, LAMBDA x : IF x.ok THEN K(x) ELSE Err(x.p))

\* advance_lexer(false): make the next raw token current; a malformed token
\* is a hard error
AdvanceLexer(p) ==
  IF p.cur >= EOFIndex THEN Ok(p, "unit")
  ELSE IF TokType(p.cur + 1) = "Invalid" THEN Err(p)
  ELSE Ok([p EXCEPT !.cur = p.cur + 1], "unit")

\* peek_lexer: the raw token after the ones already peeked, moving only the
\* peek cursor; None at the end of the stream, Err at a malformed token
PeekLexer(p) ==
  LET i == p.cur + p.peeked + 1 IN
  IF i >= EOFIndex THEN Ok(p, "None")
  ELSE IF TokType(i) = "Invalid" THEN Err(p)
  ELSE Ok([p EXCEPT !.peeked = p.peeked + 1], TokType(i))

\* lexer.reset(): the peek cursor goes back to the current position
LexerReset(p) == [p EXCEPT !.peeked = 0]

RECURSIVE WhitespaceFrom(_, _, _)
WhitespaceFrom(p, leading, start) ==
  IF TokType(p.cur) = "Whitespace" \/ (leading /\ TokType(p.cur) = "Linebreak")
  THEN Try(AdvanceLexer(p), LAMBDA a : WhitespaceFrom(a.p, leading, start))
  ELSE Ok(p, Span(start, TokStart(p.cur)))

\* whitespace(leading): the span of whitespace tokens from the current token
\* on; leading whitespace takes linebreaks too, trailing whitespace stops at
\* the first linebreak
Whitespace(p, leading) == WhitespaceFrom(p, leading, TokStart(p.cur))

(***************************************************************************)
(* CST nodes and diagnostics                                               *)
(***************************************************************************)
LiteralWhitespace(before, after) == [before |-> before, after |-> after]

\* Expr::Identifier / Expr::Number (LiteralExpr)
LiteralExpr(type, span, before, after) ==
  [type |-> type, span |-> span, whitespace |-> LiteralWhitespace(before, after)]

\* Expr::Grouping (GroupingExpr)
GroupingExpr(span, expr, opening, closing) ==
  [type |-> "Grouping", span |-> span, expr |-> expr,
   opening_paren_whitespace |-> opening, closing_paren_whitespace |-> closing]

\* self.span(start, end)
NodeSpan(start, end) == Span(start, end)

\* faulty variant: the span starts after the operator token
PrefixUpdateExprMutant(start, end, object, t, leading_whitespace, after) ==
  [type |-> "Update", span |-> NodeSpan(start + LexemeLen(t), end), prefix |-> TRUE,
   object |-> object, op |-> t,
   whitespace |-> LiteralWhitespace(leading_whitespace, after)]

\* the node built by the prefix increment/decrement arm
PrefixUpdateExpr(start, end, object, t, leading_whitespace, after) ==
  [type |-> "Update", span |-> NodeSpan(start, end), prefix |-> TRUE,
   object |-> object, op |-> t,
   whitespace |-> LiteralWhitespace(leading_whitespace, after)]

\* the node built by the unary operator arm
UnaryExpr(start, end, object, t, leading_whitespace, after) ==
  [type |-> "Unary", span |-> NodeSpan(start, end), object |-> object, op |-> t,
   whitespace |-> LiteralWhitespace(leading_whitespace, after)]

\* faulty variant: the postfix node is flagged as prefix
PostfixUpdateExprMutant(start, end, object, op, before, after) ==
  [type |-> "Update", span |-> NodeSpan(start, end), prefix |-> TRUE,
   object |-> object, op |-> op, whitespace |-> LiteralWhitespace(before, after)]

\* the node built on the postfix path
PostfixUpdateExpr(start, end, object, op, before, after) ==
  [type |-> "Update", span |-> NodeSpan(start, end), prefix |-> FALSE,
   object |-> object, op |-> op, whitespace |-> LiteralWhitespace(before, after)]

\* error(InvalidTargetExpression, ..).secondary(op).primary(object.span())
InvalidTargetDiagnostic(secondary, primary) ==
  [kind |-> "InvalidTargetExpression", primary |-> primary, secondary |-> secondary]

\* error(IdentifierDeletion, ..).primary(data.span, ..).help(..)
IdentifierDeletionDiagnostic(primary) ==
  [kind |-> "IdentifierDeletion", primary |-> primary]

\* self.errors.push(err)
PushError(p, err) == [p EXCEPT !.errors = Append(p.errors, err)]

\* Expr::is_valid_assign_target: identifiers are targets; literals, Unary,
\* Update and the other variants modelled here are not
IsValidAssignTarget(e) == e.type = "Identifier"

(***************************************************************************)
(* parse_unary_expr                                                        *)
(***************************************************************************)
\* Option<Span>
None == [some |-> FALSE]

Some(span) == [some |-> TRUE, span |-> span]

RECURSIVE ParseUnaryExpr(_, _)

\* primary expression: an identifier or a number literal with the caller's
\* leading whitespace and its own trailing whitespace
ParseLiteral(p, leading) ==
  LET type == TokType(p.cur)
      span == Span(TokStart(p.cur), TokEnd(p.cur))
  IN Try(AdvanceLexer(p), LAMBDA a :
     Try(Whitespace(a.p, FALSE), LAMBDA after :
     Ok(after.p, LiteralExpr(type, span, leading, after.val))))

\* the closing parenthesis of a grouping
CloseGrouping(p, start, leading, open_after, inner, close_before) ==
  IF TokType(p.cur) # "ParenClose" THEN Err(p)
  ELSE LET end == TokEnd(p.cur)
       IN Try(AdvanceLexer(p), LAMBDA b :
          Try(Whitespace(b.p, FALSE), LAMBDA close_after :
          Ok(close_after.p,
             GroupingExpr(Span(start, end), inner,
                          LiteralWhitespace(leading, open_after),
                          LiteralWhitespace(close_before, close_after.val)))))

\* grouping: "(" expr ")" with one whitespace pair around each parenthesis
ParseGrouping(p, leading) ==
  LET start == TokStart(p.cur)
  IN Try(AdvanceLexer(p), LAMBDA a :
     Try(Whitespace(a.p, FALSE), LAMBDA open_after :
     Try(ParseUnaryExpr(open_after.p, None), LAMBDA inner :
     Try(Whitespace(inner.p, TRUE), LAMBDA close_before :
     CloseGrouping(close_before.p, start, leading, open_after.val, inner.val,
                   close_before.val)))))

\* parse_lhs_expr(Some(leading)): the call/member/primary family, here the
\* literals and the grouping; any other token is no expression
ParseLhsExpr(p, leading) ==
  IF TokType(p.cur) \in {"Identifier", "Number"} THEN ParseLiteral(p, leading)
  ELSE IF TokType(p.cur) = "ParenOpen" THEN ParseGrouping(p, leading)
  ELSE Err(p)

\* faulty variant: the whitespace is consumed again, the given span dropped
ResolveLeadingMutant(p, leading) == Whitespace(p, TRUE)

\* let leading_whitespace = if leading.is_none() { self.whitespace(true)? }
\*                          else { leading.unwrap() }
ResolveLeading(p, leading) ==
  IF ~leading.some THEN Whitespace(p, TRUE) ELSE Ok(p, leading.span)

\* t @ TokenType::Increment | t @ TokenType::Decrement
IsUpdateToken(t) == t \in {"Increment", "Decrement"}

\* the operator set of the unary arm; Void, Typeof, BinOp(Subtract),
\* BitwiseNot and LogicalNot take the same arm as BinOp(Add)
IsUnaryToken(t) == t \in {"Delete", "Add"}

\* faulty variant: the prefix path never checks its target
PrefixTargetRejectedMutant(object) == FALSE

\* if !object.is_valid_assign_target(self), prefix path
PrefixTargetRejected(object) == ~IsValidAssignTarget(object)

\* if !object.is_valid_assign_target(self), postfix path
PostfixTargetRejected(object) == ~IsValidAssignTarget(object)

\* faulty variant: the strict-mode flag is not consulted
IdentifierDeletionMutant(is_strict, t, object) ==
  t = "Delete" /\ object.type = "Identifier"

\* if self.state.strict.is_some() && t == TokenType::Delete {
\*     if let Expr::Identifier(ref data) = object { .. push .. } }
IdentifierDeletion(is_strict, t, object) ==
  is_strict /\ t = "Delete" /\ object.type = "Identifier"

\* the prefix increment/decrement arm
ParsePrefixUpdate(p, leading_whitespace, t) ==
  LET start == TokStart(p.cur)
  IN Try(AdvanceLexer(p), LAMBDA a :
     Try(Whitespace(a.p, FALSE), LAMBDA after :
     Try(ParseUnaryExpr(after.p, None), LAMBDA object :
     LET end == object.val.span.end
         q == IF PrefixTargetRejected(object.val)
              THEN PushError(object.p,
                     InvalidTargetDiagnostic(Span(start, start + 2), object.val.span))
              ELSE object.p
     IN Ok(q, PrefixUpdateExpr(start, end, object.val, t,
                               leading_whitespace, after.val)))))

\* the delete/void/typeof/+/-/~/! arm
ParsePrefixUnary(p, leading_whitespace, t) ==
  LET start == TokStart(p.cur)
  IN Try(AdvanceLexer(p), LAMBDA a :
     Try(Whitespace(a.p, FALSE), LAMBDA after :
     Try(ParseUnaryExpr(after.p, None), LAMBDA object :
     LET end == object.val.span.end
         q == IF IdentifierDeletion(strict, t, object.val)
              THEN PushError(object.p, IdentifierDeletionDiagnostic(object.val.span))
              ELSE object.p
     IN Ok(q, UnaryExpr(start, end, object.val, t,
                        leading_whitespace, after.val)))))

\* faulty variant: a Linebreak as current token is not counted
InitialHadLinebreakMutant(t) == FALSE

\* let mut had_linebreak = self.cur_tok.token_type == TokenType::Linebreak
InitialHadLinebreak(t) == t = "Linebreak"

RECURSIVE PeekLoop(_, _)
\* loop { match self.peek_lexer()?.map(|x| x.token_type) { .. } }
PeekLoop(p, had_linebreak) ==
  Let(PeekLexer(p), LAMBDA r :
    IF ~r.ok
    THEN [ok |-> FALSE, p |-> r.p, next |-> "Err", had_linebreak |-> had_linebreak]
    ELSE IF r.val = "Whitespace" THEN PeekLoop(r.p, had_linebreak)
    ELSE IF r.val = "Linebreak" THEN PeekLoop(r.p, TRUE)
    ELSE [ok |-> TRUE, p |-> r.p, next |-> r.val, had_linebreak |-> had_linebreak])

\* the lookahead block: skipped when the current token is already ++ or --;
\* an Err of peek_lexer leaves through `?`, before self.lexer.reset()
Lookahead(p, had_linebreak) ==
  IF IsUpdateToken(TokType(p.cur))
  THEN [ok |-> TRUE, p |-> p, return |-> FALSE, had_linebreak |-> had_linebreak]
  ELSE Let(PeekLoop(p, had_linebreak), LAMBDA l :
         IF ~l.ok
         THEN [ok |-> FALSE, p |-> l.p, return |-> TRUE,
               had_linebreak |-> l.had_linebreak]
         ELSE [ok |-> TRUE, p |-> LexerReset(l.p),
               return |-> ~IsUpdateToken(l.next),
               had_linebreak |-> l.had_linebreak])

\* faulty variant: the linebreak does not stop the postfix path
LinebreakForbidsPostfixMutant(had_linebreak) == FALSE

\* if had_linebreak { return Ok(*object); }
LinebreakForbidsPostfix(had_linebreak) == had_linebreak

\* faulty variant: the start of the operator taken as the end
PostfixEndMutant(p) == TokStart(p.cur)

\* let end = self.cur_tok.lexeme.end
PostfixEnd(p) == TokEnd(p.cur)

\* the tail of parse_unary_expr: consume the operator for real
ConsumePostfix(p, object, start) ==
  Try(Whitespace(p, TRUE), LAMBDA before :
  LET op_span == Span(TokStart(before.p.cur), TokEnd(before.p.cur))
      op == TokType(before.p.cur)
      end == PostfixEnd(before.p)
  IN Try(AdvanceLexer(before.p), LAMBDA a :
     Try(Whitespace(a.p, FALSE), LAMBDA after :
     LET q == IF PostfixTargetRejected(object)
              THEN PushError(after.p, InvalidTargetDiagnostic(op_span, object.span))
              ELSE after.p
     IN Ok(q, PostfixUpdateExpr(start, end, object, op, before.val, after.val)))))

\* the left-hand-side path with the postfix lookahead
ParsePostfix(p, leading_whitespace) ==
  Try(ParseLhsExpr(p, leading_whitespace), LAMBDA l :
  LET object == l.val
      start == object.span.start
  IN Let(Lookahead(l.p, InitialHadLinebreak(TokType(l.p.cur))), LAMBDA look :
       IF ~look.ok THEN Err(look.p)
       ELSE IF look.return THEN Ok(look.p, object)
       ELSE IF LinebreakForbidsPostfix(look.had_linebreak) THEN Ok(look.p, object)
       ELSE ConsumePostfix(look.p, object, start)))

\* Parser::parse_unary_expr(leading)
ParseUnaryExpr(p, leading) ==
  Try(ResolveLeading(p, leading), LAMBDA lw :
  LET t == TokType(lw.p.cur)
  IN IF IsUpdateToken(t) THEN ParsePrefixUpdate(lw.p, lw.val, t)
     ELSE IF IsUnaryToken(t) THEN ParsePrefixUnary(lw.p, lw.val, t)
     ELSE ParsePostfix(lw.p, lw.val))

(***************************************************************************)
(* The parser as a state machine: one buffer, consecutive top-level calls  *)
(***************************************************************************)
TokenStreams ==
  {s \in UNION {[1..n -> TokenKinds] : n \in 1..MaxLen} : WellLexed(s)}

\* Parser::with_source(source, .., ..): the first token is current, nothing
\* is peeked, no diagnostics; the rule engine is idle
Init ==
  /\ source \in TokenStreams
  /\ strict \in BOOLEAN
  /\ cur = 1
  /\ peeked = 0
  /\ errors = <<>>
  /\ calls = <<>>
  /\ tree = <<>>
  /\ visited = 0
  /\ sink = <<>>

\* the parse was aborted by a hard error
Aborted == calls # <<>> /\ ~calls[Len(calls)].ok

\* the fields of the Parser the subparsers read and write
ParserState == [cur |-> cur, peeked |-> peeked, errors |-> errors]

\* one top-level call parser.parse_unary_expr(leading); with "Some" the
\* caller has consumed the leading whitespace itself and hands its span over
ParseUnaryExprCall(mode) ==
  /\ ~Aborted
  /\ \E pre \in {IF mode = "Some" THEN Whitespace(ParserState, TRUE)
                                    ELSE Ok(ParserState, None)} :
        /\ pre.ok
        /\ \E r \in {ParseUnaryExpr(pre.p, IF mode = "Some" THEN Some(pre.val) ELSE None)} :
              /\ cur' = r.p.cur
              /\ peeked' = r.p.peeked
              /\ errors' = r.p.errors
              /\ calls' = Append(calls,
                     [curIn |-> cur, errIn |-> Len(errors), ok |-> r.ok,
                      expr |-> r.val, curOut |-> r.p.cur, errOut |-> Len(r.p.errors)])
  /\ UNCHANGED <<source, strict>>
  /\ UNCHANGED ruleVars

Next == \E mode \in {"None", "Some"} : ParseUnaryExprCall(mode)

Spec == Init /\ [][Next]_vars

(***************************************************************************)
(* NoExtraSemi                                                             *)
(***************************************************************************)
EMPTY_STMT == "EMPTY_STMT"

\* faulty variant: IF_STMT missing from the list
ALLOWED_Mutant ==
  {"FOR_STMT", "FOR_IN_STMT", "FOR_OF_STMT", "WHILE_STMT", "DO_WHILE_STMT",
   "LABELLED_STMT", "WITH_STMT"}

\* const ALLOWED: [SyntaxKind; 8]
ALLOWED ==
  {"FOR_STMT", "FOR_IN_STMT", "FOR_OF_STMT", "WHILE_STMT", "DO_WHILE_STMT",
   "IF_STMT", "LABELLED_STMT", "WITH_STMT"}

\* the node kinds of the trees: the allow-list, the empty statement, and two
\* kinds outside the list
SyntaxKinds ==
  {"FOR_STMT", "FOR_IN_STMT", "FOR_OF_STMT", "WHILE_STMT", "DO_WHILE_STMT",
   "IF_STMT", "LABELLED_STMT", "WITH_STMT", "EMPTY_STMT", "BLOCK_STMT", "SCRIPT"}

\* node.parent(): index of the parent node, 0 (None) for the root
Parent(t, n) == t[n].parent

\* node.parent().map_or(true, |parent| !ALLOWED.contains(&parent.kind()))
ParentNotAllowed(t, n) ==
  IF Parent(t, n) = 0 THEN TRUE ELSE t[Parent(t, n)].kind \notin ALLOWED

\* ctx.err(self.name(), "Unnecessary semicolon").primary(node, ..)
UnnecessarySemicolon(n) ==
  [rule |-> "no-extra-semi", message |-> "Unnecessary semicolon", primary |-> n]

\* NoExtraSemi::check_node(node, ctx): the diagnostics of ctx afterwards
check_node(t, n, ctx) ==
  IF t[n].kind = EMPTY_STMT /\ ParentNotAllowed(t, n)
  THEN Append(ctx, UnnecessarySemicolon(n))
  ELSE ctx

RECURSIVE Ancestors(_, _)
\* n and the nodes above it, ps[n] being the parent of node n
Ancestors(ps, n) == IF n = 0 THEN {} ELSE {n} \cup Ancestors(ps, ps[n])

\* parent links of n nodes numbered in pre-order: node 1 is the root and
\* every later node hangs below the node before it or below one of its
\* ancestors
PreOrder(n) ==
  {ps \in [1..n -> 0..(n - 1)] :
     /\ ps[1] = 0
     /\ \A i \in 2..n : ps[i] \in Ancestors(ps, i - 1)}

\* the tree with the node kinds ks and the parent links ps
Tree(ks, ps) == [i \in DOMAIN ks |-> [kind |-> ks[i], parent |-> ps[i]]]

\* a run of the rule over any tree of up to MaxNodes nodes; the parser is idle
InitRule ==
  /\ \E n \in 1..MaxNodes :
       \E ks \in [1..n -> SyntaxKinds], ps \in PreOrder(n) : tree = Tree(ks, ps)
  /\ visited = 0
  /\ sink = <<>>
  /\ source = <<>>
  /\ strict = FALSE
  /\ cur = 1
  /\ peeked = 0
  /\ errors = <<>>
  /\ calls = <<>>

\* the dispatcher hands the next node in pre-order to the rule
CheckNode ==
  /\ visited < Len(tree)
  /\ sink' = check_node(tree, visited + 1, sink)
  /\ visited' = visited + 1
  /\ UNCHANGED tree
  /\ UNCHANGED parserVars

NextRule == CheckNode

SpecRule == InitRule /\ [][NextRule]_vars

(***************************************************************************)
(* Vocabulary of the properties                                            *)
(***************************************************************************)
RECURSIVE Nodes(_)
\* every node of the tree e
Nodes(e) ==
  {e} \cup (IF e.type \in {"Update", "Unary"} THEN Nodes(e.object)
            ELSE IF e.type = "Grouping" THEN Nodes(e.expr)
            ELSE {})

IsPrefixNode(n) == n.type = "Unary" \/ (n.type = "Update" /\ n.prefix)

IsPostfixNode(n) == n.type = "Update" /\ ~n.prefix

WhitespaceKinds == {"Whitespace", "Linebreak"}

RECURSIVE FirstNonWhitespace(_)
\* index of the first token at or after i that is neither whitespace nor a
\* linebreak (the end-of-file token at the latest)
FirstNonWhitespace(i) ==
  IF TokType(i) \in WhitespaceKinds THEN FirstNonWhitespace(i + 1) ELSE i

RECURSIVE FirstNonSpace(_)
\* index of the first token at or after i that is no Whitespace token
FirstNonSpace(i) == IF TokType(i) = "Whitespace" THEN FirstNonSpace(i + 1) ELSE i

\* the parser as call k found it, its leading whitespace, and the operand
\* parse_lhs_expr produces from there
StateBefore(k) ==
  [cur |-> calls[k].curIn, peeked |-> 0, errors |-> SubSeq(errors, 1, calls[k].errIn)]

LeadingOf(k) == Whitespace(StateBefore(k), TRUE)

OperandOf(k) ==
  Let(LeadingOf(k), LAMBDA lw : IF lw.ok THEN ParseLhsExpr(lw.p, lw.val) ELSE Err(lw.p))

\* call k parsed an operand that is followed by whitespace with at least one
\* linebreak and then by ++ or --
LinebreakBeforeUpdate(k) ==
  Let(OperandOf(k), LAMBDA l :
    /\ l.ok
    /\ IsUpdateToken(TokType(FirstNonWhitespace(l.p.cur)))
    /\ \E m \in l.p.cur..FirstNonWhitespace(l.p.cur) : TokType(m) = "Linebreak")

\* call k parsed an operand that is followed by whitespace without a
\* linebreak and then by ++ or --
UpdateAfterOperand(k) ==
  Let(OperandOf(k), LAMBDA l : l.ok /\ IsUpdateToken(TokType(l.p.cur)))

\* the diagnostics of the given kind that call k appended
AppendedOfKind(k, kind) ==
  {i \in (calls[k].errIn + 1)..calls[k].errOut : errors[i].kind = kind}

(***************************************************************************)
(* Properties                                                              *)
(***************************************************************************)
\* C1: when the operand parsed by parse_lhs_expr is followed by whitespace
\* holding a linebreak and then ++ or --, parse_unary_expr returns exactly that
\* operand, pushes no diagnostic and leaves the operator unconsumed; the next
\* parse_unary_expr call, when it succeeds, yields a prefix Update of that
\* very operator token.
C1_LinebreakSuppression ==
  \A k \in 1..Len(calls) :
    LinebreakBeforeUpdate(k) =>
      Let(OperandOf(k), LAMBDA l :
        LET j == FirstNonWhitespace(l.p.cur)
        IN /\ calls[k].ok
           /\ calls[k].expr = l.val
           /\ calls[k].errOut = Len(l.p.errors)
           /\ calls[k].curOut <= j
           /\ (k < Len(calls) /\ calls[k + 1].ok) =>
                /\ calls[k + 1].expr.type = "Update"
                /\ calls[k + 1].expr.prefix
                /\ calls[k + 1].expr.op = TokType(j)
                /\ calls[k + 1].expr.span.start = TokStart(j))

C1_Witness ==
  \E k \in 1..Len(calls) :
    /\ LinebreakBeforeUpdate(k)
    /\ k < Len(calls)
    /\ calls[k + 1].ok
    /\ calls[k + 1].expr.type = "Update"

\* C2: when the operand is followed by non-linebreak whitespace (or nothing)
\* and then ++ or --, parse_unary_expr consumes the operator and returns a
\* postfix Update (prefix = false) of that operator over that operand, with
\* the cursor on the first token after the operator that is no Whitespace
\* token; the call fails only when the lexer cannot produce that token.
C2_PostfixConsumption ==
  \A k \in 1..Len(calls) :
    UpdateAfterOperand(k) =>
      Let(OperandOf(k), LAMBDA l :
        LET m == FirstNonSpace(l.p.cur + 1)
        IN IF TokType(m) = "Invalid" THEN ~calls[k].ok
           ELSE /\ calls[k].ok
                /\ calls[k].expr.type = "Update"
                /\ calls[k].expr.prefix = FALSE
                /\ calls[k].expr.op = TokType(l.p.cur)
                /\ calls[k].expr.object = l.val
                /\ calls[k].expr.span.end = TokEnd(l.p.cur)
                /\ calls[k].curOut = m)

C2_Witness ==
  \E k \in 1..Len(calls) :
    /\ UpdateAfterOperand(k)
    /\ calls[k].ok
    /\ calls[k].expr.op = "Decrement"
    /\ calls[k].expr.object.type = "Identifier"
    /\ calls[k].expr.object.whitespace.after.start < calls[k].expr.object.whitespace.after.end
    /\ calls[k].expr.whitespace.after.start < calls[k].expr.whitespace.after.end

\* C3: a parse_unary_expr call that returns Ok appended exactly as many
\* InvalidTargetExpression diagnostics as the returned tree has Update nodes
\* whose operand is no valid assignment target, each with its primary label
\* on that operand; the Update nodes are in the tree all the same.
C3_OneDiagnosticPerInvalidTarget ==
  \A k \in 1..Len(calls) :
    calls[k].ok =>
      LET bad == {n \in Nodes(calls[k].expr) :
                    n.type = "Update" /\ ~IsValidAssignTarget(n.object)}
      IN /\ Cardinality(AppendedOfKind(k, "InvalidTargetExpression")) = Cardinality(bad)
         /\ \A n \in bad :
              \E i \in AppendedOfKind(k, "InvalidTargetExpression") :
                errors[i].primary = n.object.span

\* `++ ++ x`: the outer application is rejected, the inner one is not
C3_Witness ==
  \E k \in 1..Len(calls) :
    /\ calls[k].ok
    /\ calls[k].expr.type = "Update"
    /\ calls[k].expr.object.type = "Update"
    /\ calls[k].expr.object.object.type = "Identifier"
    /\ Cardinality(AppendedOfKind(k, "InvalidTargetExpression")) = 1
    /\ \A i \in AppendedOfKind(k, "InvalidTargetExpression") :
         errors[i].primary = calls[k].expr.object.span

\* a token-bearing element of a tree: its two whitespace spans and what the
\* node records of its token (-1 for an offset the node does not record)
Element(ws, start, end) ==
  [before |-> ws.before, after |-> ws.after, start |-> start, end |-> end]

RECURSIVE Elements(_)
\* the token-bearing elements of the tree e in source order
Elements(e) ==
  IF e.type \in {"Identifier", "Number"}
  THEN <<Element(e.whitespace, e.span.start, e.span.end)>>
  ELSE IF e.type = "Grouping"
  THEN <<Element(e.opening_paren_whitespace, e.span.start, -1)>>
       \o Elements(e.expr)
       \o <<Element(e.closing_paren_whitespace, -1, e.span.end)>>
  ELSE IF IsPrefixNode(e)
  THEN <<Element(e.whitespace, e.span.start, -1)>> \o Elements(e.object)
  ELSE Elements(e.object) \o <<Element(e.whitespace, -1, e.span.end)>>

\* the element sits on a token of the buffer: before ends at the token's
\* start and after starts at the token's end
OnToken(el) ==
  \E i \in 1..Len(source) :
    /\ el.start # -1 => TokStart(i) = el.start
    /\ el.end # -1 => TokEnd(i) = el.end
    /\ el.before.end = TokStart(i)
    /\ el.after.start = TokEnd(i)
    /\ el.before.start <= el.before.end
    /\ el.after.start <= el.after.end

\* C4: the whitespace spans and tokens of a returned expression tile the
\* source slice the call covered: every element's before span ends at its
\* token, its after span starts at the token's end, each after span ends where
\* the next element's before span starts, the first before span starts where
\* the call started and the last after span ends at the cursor, which is
\* where the next top-level call on the buffer starts.
C4_LosslessWhitespace ==
  \A k \in 1..Len(calls) :
    calls[k].ok =>
      LET els == Elements(calls[k].expr)
      IN /\ \A j \in 1..Len(els) : OnToken(els[j])
         /\ \A j \in 1..(Len(els) - 1) : els[j].after.end = els[j + 1].before.start
         /\ els[1].before.start = TokStart(calls[k].curIn)
         /\ els[Len(els)].after.end = TokStart(calls[k].curOut)
         /\ (k < Len(calls) /\ calls[k + 1].ok) =>
              Elements(calls[k + 1].expr)[1].before.start = els[Len(els)].after.end

\* two consecutive top-level parses, the second one starting with whitespace
C4_Witness ==
  /\ Len(calls) >= 2
  /\ calls[1].ok
  /\ calls[2].ok
  /\ Elements(calls[2].expr)[1].before.start < Elements(calls[2].expr)[1].before.end

\* C6: a Unary or prefix Update node spans from the start of its operator
\* token to the end of its operand's span, a postfix Update node from the
\* start of its operand's span to the end of its operator token; start <= end,
\* and the span starts and ends on tokens that are no whitespace.
C6_SpanBookkeeping ==
  \A k \in 1..Len(calls) :
    calls[k].ok =>
      \A n \in Nodes(calls[k].expr) :
        /\ IsPrefixNode(n) =>
             /\ \E i \in 1..Len(source) :
                  /\ TokType(i) = n.op
                  /\ TokStart(i) = n.span.start
                  /\ n.whitespace.before.end = TokStart(i)
                  /\ n.whitespace.after.start = TokEnd(i)
             /\ n.span.end = n.object.span.end
        /\ IsPostfixNode(n) =>
             /\ \E i \in 1..Len(source) :
                  /\ TokType(i) = n.op
                  /\ TokEnd(i) = n.span.end
                  /\ n.whitespace.before.end = TokStart(i)
                  /\ n.whitespace.after.start = TokEnd(i)
             /\ n.span.start = n.object.span.start
        /\ (IsPrefixNode(n) \/ IsPostfixNode(n)) =>
             /\ n.span.start <= n.span.end
             /\ \E i \in 1..Len(source) :
                  TokStart(i) = n.span.start /\ TokType(i) \notin WhitespaceKinds
             /\ \E i \in 1..Len(source) :
                  TokEnd(i) = n.span.end /\ TokType(i) \notin WhitespaceKinds

\* ` ++ foo `: whitespace before the operator, between operator and operand
\* and after the operand
C6_Witness ==
  \E k \in 1..Len(calls) :
    /\ calls[k].ok
    /\ calls[k].expr.type = "Update"
    /\ calls[k].expr.prefix
    /\ calls[k].expr.whitespace.before.start < calls[k].expr.whitespace.before.end
    /\ calls[k].expr.whitespace.after.start < calls[k].expr.whitespace.after.end

\* C7, as stated: when a linebreak stands between the operand and ++ or --
\* and the bare operand is returned, the current token on return is the
\* unconsumed ++ or -- token.
C7_CursorOnOperator ==
  \A k \in 1..Len(calls) :
    (LinebreakBeforeUpdate(k) /\ calls[k].ok) =>
      IsUpdateToken(TokType(calls[k].curOut))

\* C7, amended: on return the current token is the first Linebreak token
\* after the operand and its trailing whitespace; the ++ or -- token is the
\* next token that is neither whitespace nor a linebreak.
C7_CursorOnLinebreak ==
  \A k \in 1..Len(calls) :
    LinebreakBeforeUpdate(k) =>
      /\ calls[k].ok
      /\ TokType(calls[k].curOut) = "Linebreak"
      /\ calls[k].curOut = OperandOf(k).p.cur
      /\ IsUpdateToken(TokType(FirstNonWhitespace(calls[k].curOut)))

C7_Witness ==
  \E k \in 1..Len(calls) :
    /\ LinebreakBeforeUpdate(k)
    /\ calls[k].ok
    /\ calls[k].expr.type = "Identifier"
    /\ TokType(calls[k].curOut) = "Linebreak"
    /\ TokType(calls[k].curOut + 1) = "Increment"

\* C8: whenever parse_unary_expr has returned, on the Ok paths and on an Err
\* of peek_lexer alike, the peek cursor of the lexer is back where the
\* lookahead started.
C8_PeekCursorRestored == peeked = 0

\* C9: a parse_unary_expr call that returns Ok appended one
\* IdentifierDeletion diagnostic for every Unary node of the tree whose
\* operator is Delete and whose operand is an Identifier when the parser is in
\* strict mode, with its primary label on that identifier, and none otherwise.
C9_StrictIdentifierDeletion ==
  \A k \in 1..Len(calls) :
    calls[k].ok =>
      LET deleted == {n \in Nodes(calls[k].expr) :
                        n.type = "Unary" /\ n.op = "Delete" /\ n.object.type = "Identifier"}
      IN /\ Cardinality(AppendedOfKind(k, "IdentifierDeletion"))
              = (IF strict THEN Cardinality(deleted) ELSE 0)
         /\ strict =>
              \A n \in deleted :
                \E i \in AppendedOfKind(k, "IdentifierDeletion") :
                  errors[i].primary = n.object.span

\* `delete foo` in strict mode: a Unary node and one diagnostic on `foo`
C9_Witness ==
  \E k \in 1..Len(calls) :
    /\ strict
    /\ calls[k].ok
    /\ calls[k].expr.type = "Unary"
    /\ calls[k].expr.op = "Delete"
    /\ calls[k].expr.object.type = "Identifier"
    /\ Cardinality(AppendedOfKind(k, "IdentifierDeletion")) = 1

\* C10: every Update node of a returned tree has the operator Increment or
\* Decrement.
C10_UpdateOperatorIsUpdate ==
  \A k \in 1..Len(calls) :
    calls[k].ok =>
      \A n \in Nodes(calls[k].expr) : n.type = "Update" => IsUpdateToken(n.op)

\* the kinds the rule's documentation lists as bodies that may be empty
AllowListOfTheRule ==
  {"FOR_STMT", "FOR_IN_STMT", "FOR_OF_STMT", "WHILE_STMT", "DO_WHILE_STMT",
   "IF_STMT", "LABELLED_STMT", "WITH_STMT"}

Reported(n) ==
  /\ tree[n].kind = "EMPTY_STMT"
  /\ tree[n].parent = 0 \/ tree[tree[n].parent].kind \notin AllowListOfTheRule

\* C5: after the dispatcher has visited the first `visited` nodes, the sink
\* holds exactly one "Unnecessary semicolon" diagnostic, labelled on the node,
\* for every visited EMPTY_STMT node whose parent is absent or outside the
\* allow-list, in visiting order, and nothing else.
C5_EmptyStatementAllowList ==
  /\ \A i \in 1..Len(sink) :
       /\ sink[i].message = "Unnecessary semicolon"
       /\ sink[i].primary \in 1..visited
       /\ Reported(sink[i].primary)
       /\ \A j \in 1..(i - 1) : sink[j].primary < sink[i].primary
  /\ \A n \in 1..visited : Reported(n) => \E i \in 1..Len(sink) : sink[i].primary = n

\* `if (foo) { ; }`: the empty statement in the block of an if is reported
C5_Witness ==
  /\ Len(tree) = 3
  /\ visited = 3
  /\ tree[1].kind = "IF_STMT"
  /\ tree[2].kind = "BLOCK_STMT" /\ tree[2].parent = 1
  /\ tree[3].kind = "EMPTY_STMT" /\ tree[3].parent = 2
  /\ Len(sink) = 1
  /\ sink[1].primary = 3

====
